---- MODULE Spec2Model ----
(***************************************************************************)
(* The tool hierarchy of src/src/module3/file_f.py: BaseTool, CustomTool,  *)
(* AdvancedTool and PluginTool.                                            *)
(*                                                                         *)
(* Python lists are objects with identity, so the model keeps a heap of    *)
(* list objects and a tool's plugins attribute is a reference into it.     *)
(* The lists a caller builds and hands to a constructor live in the same   *)
(* heap.  A mapping returned by run() is kept by the caller exactly as it  *)
(* was returned: its plugins entry is whatever reference the code stored.  *)
(***************************************************************************)
EXTENDS Integers, Sequences, FiniteSets, TLC

VARIABLES
    tools,      \* tool slot -> the instance's attributes ([cls |-> "none"] before construction)
    heap,       \* address -> contents of the list object at that address
    runs,       \* tool slot -> the mappings/strings run() has returned so far, oldest first
    ret,        \* the last call made: operation, instance, argument, returned value, line printed
    args        \* tool slot -> the arguments its constructor call was written with

vars == <<tools, heap, runs, ret, args>>

----------------------------------------------------------------------------
(* Bounds *)

MaxRuns == 2        \* run() calls per instance

\* Two instances: enough for one instance's list to be the other's.
Tools == {1, 2}

(* Input values *)

PluginNames == {"auth", "cache"}

----------------------------------------------------------------------------
(* Python values *)

None == [tag |-> "None"]
Str(s) == [tag |-> "str", s |-> s]
ListRef(a) == [tag |-> "list", addr |-> a]
Dict(items) == [tag |-> "dict", items |-> items]    \* items: sequence of <<key, value>>

\* An optional argument at a call site: left out, or supplied.
Omitted == [given |-> FALSE]
Given(v) == [given |-> TRUE, v |-> v]

\* Parameter binding: a parameter left out takes the default of the signature.
Bind(arg, default) == IF arg.given THEN arg.v ELSE default

\* The list objects the caller owns before any tool is built.
CallerLists == << <<>>, <<"auth">>, <<"auth", "auth">> >>
CallerAddrs == 1..Len(CallerLists)

\* The address of the list object that `[]` allocates in the constructor of slot t.
FreshAddr(t) == Len(CallerLists) + t

\* Python truth value of None, a dict and a list.
Truthy(v, h) ==
    CASE v.tag = "None" -> FALSE
      [] v.tag = "dict" -> Len(v.items) > 0
      [] v.tag = "list" -> Len(h[v.addr]) > 0

RECURSIVE ReprItems(_)
ReprItems(items) ==
    IF Len(items) = 0 THEN ""
    ELSE "'" \o items[1][1] \o "': '" \o items[1][2] \o "'"
         \o (IF Len(items) > 1 THEN ", " ELSE "")
         \o ReprItems(Tail(items))

\* str() of a dict of strings, as an f-string renders it.
ReprDict(d) == "{" \o ReprItems(d.items) \o "}"

InList(x, s) == \E i \in 1..Len(s) : s[i] = x

----------------------------------------------------------------------------
(* Constructors *)

\* Variant: the enabled argument is dropped and the default stored.
BaseTool_init_default_enabled(name, version, enabled) ==
    [name |-> name, version |-> version, enabled |-> TRUE]

BaseTool_init(name, version, enabled) ==
    [name |-> name, version |-> version, enabled |-> enabled]

\* Variant: the configuration argument is dropped and an empty mapping stored.
CustomTool_init_no_config(name, version, enabled, custom_config) ==
    [name |-> name, version |-> version, enabled |-> enabled, custom_config |-> Dict(<<>>)]

CustomTool_init(name, version, enabled, custom_config) ==
    BaseTool_init(name, version, enabled)
        @@ [custom_config |-> IF Truthy(custom_config, heap) THEN custom_config ELSE Dict(<<>>)]

AdvancedTool_init(name, version, enabled, log_file, timeout) ==
    BaseTool_init(name, version, enabled)
        @@ [log_file |-> log_file, timeout |-> timeout, execution_count |-> 0]

\* `plugins or []`: a truthy argument is stored as it is (the same list
\* object), anything else is replaced by a newly allocated empty list.
PluginTool_init(t, name, version, enabled, log_file, timeout, plugins) ==
    LET keep == Truthy(plugins, heap)
    IN  [self |-> AdvancedTool_init(name, version, enabled, log_file, timeout)
                    @@ [plugins |-> IF keep THEN plugins ELSE ListRef(FreshAddr(t))],
         heap |-> IF keep THEN heap ELSE heap @@ (FreshAddr(t) :> <<>>)]

----------------------------------------------------------------------------
(* Methods: each gives the instance after the call, the returned value     *)
(* and, where the method prints, the line printed.                         *)

BaseTool_run(self) ==
    [self |-> self,
     out |-> "Running base tool: " \o self.name,
     val |-> "Base tool " \o self.name \o " executed."]

BaseTool_get_info(self) ==
    [name |-> self.name, version |-> self.version, enabled |-> self.enabled]

CustomTool_run(self) ==
    [self |-> self,
     out |-> "Running custom tool: " \o self.name,
     val |-> "Custom tool " \o self.name \o " executed with config: "
                \o ReprDict(self.custom_config)]

\* Variant: the mapping is built from the counter as it was before the increment.
AdvancedTool_run_stale_count(self) ==
    LET s == [self EXCEPT !.execution_count = @ + 1]
    IN  [self |-> s,
         out |-> "Running advanced tool: " \o s.name,
         val |-> [status |-> "success", tool_name |-> s.name,
                  execution_count |-> self.execution_count, timeout |-> s.timeout]]

\* Variant: the increment is applied to timeout as well.
AdvancedTool_run_bumps_timeout(self) ==
    LET s == [self EXCEPT !.execution_count = @ + 1, !.timeout = @ + 1]
    IN  [self |-> s,
         out |-> "Running advanced tool: " \o s.name,
         val |-> [status |-> "success", tool_name |-> s.name,
                  execution_count |-> s.execution_count, timeout |-> s.timeout]]

AdvancedTool_run(self) ==
    LET s == [self EXCEPT !.execution_count = @ + 1]
    IN  [self |-> s,
         out |-> "Running advanced tool: " \o s.name,
         val |-> [status |-> "success", tool_name |-> s.name,
                  execution_count |-> s.execution_count, timeout |-> s.timeout]]

AdvancedTool_get_stats(self) ==
    [name |-> self.name, execution_count |-> self.execution_count, timeout |-> self.timeout]

\* Variant: the membership test is missing.
PluginTool_add_plugin_no_test(self, h, plugin_name) ==
    [heap |-> [h EXCEPT ![self.plugins.addr] = Append(@, plugin_name)], val |-> TRUE]

\* The list at self.plugins after add_plugin(plugin_name), and the value returned.
PluginTool_add_plugin(self, h, plugin_name) ==
    IF ~InList(plugin_name, h[self.plugins.addr])
    THEN [heap |-> [h EXCEPT ![self.plugins.addr] = Append(@, plugin_name)], val |-> TRUE]
    ELSE [heap |-> h, val |-> FALSE]

\* Variant: the override counts the call itself, on top of the parent's increment.
PluginTool_run_counts_twice(self, h) ==
    LET base == AdvancedTool_run(self)
        s == [base.self EXCEPT !.execution_count = @ + 1]
    IN  [self |-> s,
         out |-> base.out,
         val |-> base.val @@ [plugins |-> self.plugins,
                              plugin_count |-> Len(h[self.plugins.addr])]]

\* Variant: plugin_count is taken from the counter instead of the list.
PluginTool_run_wrong_count(self, h) ==
    LET base == AdvancedTool_run(self)
    IN  [self |-> base.self,
         out |-> base.out,
         val |-> base.val @@ [plugins |-> self.plugins,
                              plugin_count |-> base.self.execution_count]]

PluginTool_run(self, h) ==
    LET base == AdvancedTool_run(self)
    IN  [self |-> base.self,
         out |-> base.out,
         val |-> base.val @@ [plugins |-> self.plugins,
                              plugin_count |-> Len(h[self.plugins.addr])]]

----------------------------------------------------------------------------
(* What a caller reads in a value it holds: a list reference is followed   *)
(* to the list's present contents.                                         *)

Deref(v, h) == [v EXCEPT !.plugins = h[v.plugins.addr]]

Plugins(t) == heap[tools[t].plugins.addr]

Constructed(t) == tools[t].cls # "none"
IsCounting(t) == tools[t].cls \in {"AdvancedTool", "PluginTool"}
IsPlugin(t) == tools[t].cls = "PluginTool"

----------------------------------------------------------------------------
(* Constructor arguments tried *)

\* name, version, enabled, log_file and timeout, as a call site writes them:
\* everything after name left out, and everything supplied.
CtorArgs ==
    { [name |-> "fmt", version |-> Omitted, enabled |-> Omitted,
       log_file |-> Omitted, timeout |-> Omitted],
      [name |-> "svc", version |-> Given("9.9"), enabled |-> Given(FALSE),
       log_file |-> Given(Str("run.log")), timeout |-> Given(5)] }
ConfigArgs == {Omitted, Given(None), Given(Dict(<<>>)), Given(Dict(<< <<"mode", "fast">> >>))}
PluginsArgs == {Omitted} \cup {Given(ListRef(a)) : a \in CallerAddrs}

----------------------------------------------------------------------------
Init ==
    /\ tools = [t \in Tools |-> [cls |-> "none"]]
    /\ heap = [a \in CallerAddrs |-> CallerLists[a]]
    /\ runs = [t \in Tools |-> <<>>]
    /\ ret = [op |-> "none"]
    /\ args = [t \in Tools |-> Omitted]

\* Slots are filled in order.
CanBuild(t) == /\ ~Constructed(t)
               /\ \A u \in Tools : u < t => Constructed(u)

NewBaseTool(t) ==
    /\ CanBuild(t)
    /\ \E a \in CtorArgs :
         /\ tools' = [tools EXCEPT ![t] = [cls |-> "BaseTool"]
                      @@ BaseTool_init(a.name, Bind(a.version, "1.0"), Bind(a.enabled, TRUE))]
         /\ args' = [args EXCEPT ![t] = [name |-> a.name, version |-> a.version,
                                         enabled |-> a.enabled]]
    /\ ret' = [op |-> "new", tool |-> t]
    /\ UNCHANGED <<heap, runs>>

NewCustomTool(t) ==
    /\ CanBuild(t)
    /\ \E a \in CtorArgs, custom_config \in ConfigArgs :
         /\ tools' = [tools EXCEPT ![t] = [cls |-> "CustomTool"]
                      @@ CustomTool_init(a.name, Bind(a.version, "1.0"), Bind(a.enabled, TRUE),
                                         Bind(custom_config, None))]
         /\ args' = [args EXCEPT ![t] = [name |-> a.name, version |-> a.version,
                                         enabled |-> a.enabled,
                                         custom_config |-> custom_config]]
    /\ ret' = [op |-> "new", tool |-> t]
    /\ UNCHANGED <<heap, runs>>

NewAdvancedTool(t) ==
    /\ CanBuild(t)
    /\ \E a \in CtorArgs :
         /\ tools' = [tools EXCEPT ![t] = [cls |-> "AdvancedTool"]
                      @@ AdvancedTool_init(a.name, Bind(a.version, "2.0"), Bind(a.enabled, TRUE),
                                           Bind(a.log_file, None), Bind(a.timeout, 30))]
         /\ args' = [args EXCEPT ![t] = a]
    /\ ret' = [op |-> "new", tool |-> t]
    /\ UNCHANGED <<heap, runs>>

NewPluginTool(t) ==
    /\ CanBuild(t)
    /\ \E a \in CtorArgs, plugins \in PluginsArgs :
         LET r == PluginTool_init(t, a.name, Bind(a.version, "3.0"), Bind(a.enabled, TRUE),
                                  Bind(a.log_file, None), Bind(a.timeout, 30),
                                  Bind(plugins, None))
         IN  /\ tools' = [tools EXCEPT ![t] = [cls |-> "PluginTool"] @@ r.self]
             /\ heap' = r.heap
             /\ args' = [args EXCEPT ![t] = a @@ [plugins |-> plugins]]
    /\ ret' = [op |-> "new", tool |-> t]
    /\ UNCHANGED runs

\* run(): the method of the instance's class is the one called.
Called(t, r) ==
    /\ tools' = [tools EXCEPT ![t] = r.self]
    /\ runs' = [runs EXCEPT ![t] = Append(@, r.val)]
    /\ ret' = [op |-> "run", tool |-> t, val |-> r.val, out |-> r.out]
    /\ UNCHANGED <<heap, args>>

BaseRun(t) ==
    /\ tools[t].cls = "BaseTool"
    /\ Len(runs[t]) < MaxRuns
    /\ Called(t, BaseTool_run(tools[t]))

CustomRun(t) ==
    /\ tools[t].cls = "CustomTool"
    /\ Len(runs[t]) < MaxRuns
    /\ Called(t, CustomTool_run(tools[t]))

AdvancedRun(t) ==
    /\ tools[t].cls = "AdvancedTool"
    /\ Len(runs[t]) < MaxRuns
    /\ Called(t, AdvancedTool_run(tools[t]))

PluginRun(t) ==
    /\ tools[t].cls = "PluginTool"
    /\ Len(runs[t]) < MaxRuns
    /\ Called(t, PluginTool_run(tools[t], heap))

GetInfo(t) ==
    /\ Constructed(t)
    /\ ret' = [op |-> "get_info", tool |-> t, val |-> BaseTool_get_info(tools[t])]
    /\ UNCHANGED <<tools, heap, runs, args>>

GetStats(t) ==
    /\ IsCounting(t)
    /\ ret' = [op |-> "get_stats", tool |-> t, val |-> AdvancedTool_get_stats(tools[t])]
    /\ UNCHANGED <<tools, heap, runs, args>>

AddPlugin(t) ==
    /\ IsPlugin(t)
    /\ \E plugin_name \in PluginNames :
         LET r == PluginTool_add_plugin(tools[t], heap, plugin_name)
         IN  /\ heap' = r.heap
             /\ ret' = [op |-> "add_plugin", tool |-> t, arg |-> plugin_name, val |-> r.val]
    /\ UNCHANGED <<tools, runs, args>>

Next ==
    \E t \in Tools :
        \/ NewBaseTool(t)
        \/ NewCustomTool(t)
        \/ NewAdvancedTool(t)
        \/ NewPluginTool(t)
        \/ BaseRun(t)
        \/ CustomRun(t)
        \/ AdvancedRun(t)
        \/ PluginRun(t)
        \/ GetInfo(t)
        \/ GetStats(t)
        \/ AddPlugin(t)

Spec == Init /\ [][Next]_vars

----------------------------------------------------------------------------
(* Properties *)

NoDuplicates(s) == \A i, j \in 1..Len(s) : s[i] = s[j] => i = j
IsPrefix(s, l) == Len(s) <= Len(l) /\ \A i \in 1..Len(s) : s[i] = l[i]

\* The defaults the constructors' signatures give to version.
DefaultVersion(cls) ==
    CASE cls \in {"BaseTool", "CustomTool"} -> "1.0"
      [] cls = "AdvancedTool" -> "2.0"
      [] cls = "PluginTool" -> "3.0"

\* C1: on every AdvancedTool and PluginTool, execution_count is the number
\* of run calls made on that instance so far (0 at construction, one more
\* per run call, get_info/get_stats/add_plugin leave it alone).
C1_CountIsNumberOfRuns ==
    \A t \in Tools : IsCounting(t) => tools[t].execution_count = Len(runs[t])

\* A PluginTool that has run twice, with a plugin added since it was built.
C1_Witness ==
    \E t \in Tools : /\ IsPlugin(t)
                     /\ Len(runs[t]) = 2
                     /\ tools[t].execution_count = 2
                     /\ ret.op = "add_plugin" /\ ret.tool = t /\ ret.val

\* C2 (as claimed): in every state of a PluginTool, right after
\* construction with any plugins argument included, plugins has no
\* duplicate entries, and every step keeps the entries already there in
\* front, in their order.
C2_DuplicateFreeInOrder ==
    [][\A t \in Tools :
          IsPlugin(t)' =>
             /\ NoDuplicates(Plugins(t)')
             /\ IsPlugin(t) => IsPrefix(Plugins(t), Plugins(t)')]_vars

\* C3: add_plugin(p) appends p and returns true when p is not in plugins,
\* returns false and leaves plugins as they are when it is; a second
\* add_plugin(p) straight after the first returns false and changes nothing.
C3_AddPluginOutcomes ==
    [][\A t \in Tools :
          (ret'.op = "add_plugin" /\ ret'.tool = t) =>
             LET p == ret'.arg
                 old == Plugins(t)
                 new == Plugins(t)'
             IN  /\ \/ ~InList(p, old) /\ new = Append(old, p) /\ ret'.val = TRUE
                    \/ InList(p, old) /\ new = old /\ ret'.val = FALSE
                 /\ (ret.op = "add_plugin" /\ ret.tool = t /\ ret.arg = p) =>
                        ret'.val = FALSE /\ new = old]_vars

\* add_plugin has just turned down a name that an earlier add_plugin appended.
C3_Witness ==
    /\ ret.op = "add_plugin"
    /\ ret.val = FALSE
    /\ tools[ret.tool].plugins.addr = FreshAddr(ret.tool)
    /\ InList(ret.arg, Plugins(ret.tool))

\* C4: the mapping PluginTool.run() returns has exactly the keys status,
\* tool_name, execution_count, timeout, plugins, plugin_count; status is
\* "success", tool_name and timeout are the tool's, execution_count is the
\* counter after this call's one increment, plugins is the tool's plugin
\* list as it is now and plugin_count its length.
C4_PluginRunResult ==
    (ret.op = "run" /\ IsPlugin(ret.tool)) =>
        LET t == ret.tool
            v == ret.val
        IN  /\ DOMAIN v = {"status", "tool_name", "execution_count", "timeout",
                           "plugins", "plugin_count"}
            /\ v.status = "success"
            /\ v.tool_name = args[t].name
            /\ v.timeout = Bind(args[t].timeout, 30)
            /\ v.execution_count = Len(runs[t])
            /\ v.execution_count = tools[t].execution_count
            /\ heap[v.plugins.addr] = Plugins(t)
            /\ v.plugin_count = Len(Plugins(t))

\* A second run() of a PluginTool that holds two plugins.
C4_Witness ==
    /\ ret.op = "run"
    /\ IsPlugin(ret.tool)
    /\ ret.val.execution_count = 2
    /\ ret.val.plugin_count = 2

\* C5 (as claimed): an add_plugin or run call on one instance leaves every
\* other instance's plugins and execution_count as they were, however the
\* instances were constructed.
C5_InstancesShareNothing ==
    [][\A t, u \in Tools :
          (t # u /\ ret'.op \in {"add_plugin", "run"} /\ ret'.tool = t) =>
             /\ IsCounting(u) => tools[u].execution_count' = tools[u].execution_count
             /\ IsPlugin(u) => Plugins(u)' = Plugins(u)]_vars

\* C6: get_info() returns exactly name, version and enabled, with the
\* values the constructor was called with (version defaulting to "1.0",
\* "1.0", "2.0", "3.0" by class, enabled to true), whatever run and
\* add_plugin calls came before.
C6_GetInfoResult ==
    ret.op = "get_info" =>
        LET t == ret.tool
            v == ret.val
        IN  /\ DOMAIN v = {"name", "version", "enabled"}
            /\ v.name = args[t].name
            /\ v.version = Bind(args[t].version, DefaultVersion(tools[t].cls))
            /\ v.enabled = Bind(args[t].enabled, TRUE)

\* get_info() on a PluginTool built with version and enabled left out, after
\* two runs and an added plugin.
C6_Witness ==
    /\ ret.op = "get_info"
    /\ IsPlugin(ret.tool)
    /\ Len(runs[ret.tool]) = 2
    /\ Len(Plugins(ret.tool)) > 0
    /\ ret.val.enabled = TRUE
    /\ ret.val.version = "3.0"

\* C7: only add_plugin changes a PluginTool's plugins, only run on the
\* instance changes its execution_count, and nothing changes name, version,
\* enabled, timeout or log_file once the instance is built.
C7_Frame ==
    [][\A t \in Tools :
          Constructed(t) =>
             /\ tools[t].name' = tools[t].name
             /\ tools[t].version' = tools[t].version
             /\ tools[t].enabled' = tools[t].enabled
             /\ IsCounting(t) =>
                   /\ tools[t].timeout' = tools[t].timeout
                   /\ tools[t].log_file' = tools[t].log_file
                   /\ tools[t].execution_count' # tools[t].execution_count =>
                          ret'.op = "run" /\ ret'.tool = t
             /\ IsPlugin(t) =>
                   /\ tools[t].plugins' = tools[t].plugins
                   /\ Plugins(t)' # Plugins(t) => ret'.op = "add_plugin"]_vars

\* A run() of a PluginTool built with timeout=5 that already holds a plugin.
C7_Witness ==
    /\ ret.op = "run"
    /\ IsPlugin(ret.tool)
    /\ tools[ret.tool].timeout = 5
    /\ Len(Plugins(ret.tool)) > 0
    /\ tools[ret.tool].execution_count = 2

\* C8: get_stats() returns exactly name, execution_count and timeout as
\* they are now: execution_count is 0 before any run and, after the k-th
\* run, k, the value in the mapping that run returned; the k-th run's
\* mapping carries k, so consecutive runs differ.
C8_GetStatsResult ==
    /\ \A t \in Tools :
          IsCounting(t) =>
             \A i \in 1..Len(runs[t]) : runs[t][i].execution_count = i
    /\ ret.op = "get_stats" =>
          LET t == ret.tool
              v == ret.val
              k == Len(runs[t])
          IN  /\ DOMAIN v = {"name", "execution_count", "timeout"}
              /\ v.name = tools[t].name
              /\ v.timeout = tools[t].timeout
              /\ v.execution_count = k
              /\ k > 0 => v.execution_count = runs[t][k].execution_count

\* get_stats() after the second run.
C8_Witness ==
    /\ ret.op = "get_stats"
    /\ ret.val.execution_count = 2
    /\ Len(runs[ret.tool]) = 2

\* The text of a mapping as the claim's format string shows it.
C9_ConfigText(d) ==
    IF d = Dict(<<>>) THEN "{}" ELSE "{'mode': 'fast'}"

\* C9: a CustomTool's custom_config is the mapping it was constructed
\* with, or an empty mapping when that argument was left out, None or
\* empty; every run() returned "Custom tool {name} executed with config:
\* {custom_config}" and left name, version, enabled and custom_config as
\* constructed.
C9_CustomTool ==
    \A t \in Tools :
        tools[t].cls = "CustomTool" =>
           LET given == Bind(args[t].custom_config, None)
               expect == IF given.tag = "dict" /\ Len(given.items) > 0
                         THEN given ELSE Dict(<<>>)
           IN  /\ tools[t].custom_config = expect
               /\ tools[t].name = args[t].name
               /\ tools[t].version = Bind(args[t].version, "1.0")
               /\ tools[t].enabled = Bind(args[t].enabled, TRUE)
               /\ \A i \in 1..Len(runs[t]) :
                     runs[t][i] = "Custom tool " \o args[t].name
                                    \o " executed with config: " \o C9_ConfigText(expect)

\* A CustomTool built with {"mode": "fast"} that has run twice.
C9_Witness ==
    \E t \in Tools : /\ tools[t].cls = "CustomTool"
                     /\ tools[t].custom_config = Dict(<< <<"mode", "fast">> >>)
                     /\ Len(runs[t]) = 2
                     /\ runs[t][2] = "Custom tool fmt executed with config: {'mode': 'fast'}"

\* C10 (as claimed): whatever is called later, a mapping an earlier
\* PluginTool.run() returned reads the same, and its plugin_count is the
\* length of its plugins entry.
C10_EarlierResultIsSnapshot ==
    [][\A t \in Tools :
          IsPlugin(t) =>
             \A i \in 1..Len(runs[t]) :
                /\ Deref(runs[t][i], heap') = Deref(runs[t][i], heap)
                /\ runs[t][i].plugin_count = Len(heap'[runs[t][i].plugins.addr])]_vars

====
